---- MODULE Spec2Model ----
(***************************************************************************)
(* Panchayath field-agent management UI.                                   *)
(*                                                                         *)
(*   PerformanceReport.tsx : analyzeAgentPerformance (the consecutive-     *)
(*                           inactivity analyzer) and fetchPerformanceData *)
(*                           (the report aggregator)                       *)
(*   CoordinatorForm.tsx   : handleSubmit of the coordinator form          *)
(*   ProForm (part_000)    : handleSubmit of the PRO form                  *)
(*                                                                         *)
(* Three specifications share the variables:                               *)
(*   SpecAnalyzer : one call of analyzeAgentPerformance on every note set, *)
(*                  clock value and time zone of the bounded calendar      *)
(*   SpecReport   : report passes over the four agent tables               *)
(*   SpecForms    : one mounted form (either kind, adding or editing) and  *)
(*                  its submit events against the agent tables             *)
(***************************************************************************)
EXTENDS Integers, Sequences, FiniteSets, TLC

VARIABLES
    tzOffset,        \* the browser's time zone: local time = UTC + tzOffset ticks
    now,             \* the clock, in ticks since the epoch (UTC): new Date()
    selectedMonth,   \* PerformanceReport state: the month of the report
    daily_notes,     \* backend table daily_notes: a set of note rows
    analysis,        \* the last call of analyzeAgentPerformance (inputs seen, result)
    agents,          \* backend agent tables: table -> set of rows
    selectedPanchayath, \* PerformanceReport state: the panchayath of the report
    passes,          \* report passes in flight or finished (fetchPerformanceData)
    agentPerformance,\* PerformanceReport state: the displayed list
    performanceStats,\* PerformanceReport state: the displayed statistics
    reportLoading,   \* PerformanceReport state: loading
    form,            \* the mounted form: its props and React state
    req,             \* the form's submit event: what runs, or how the last one ended
    netlog,          \* the network calls issued by the form's latest submit event
    other            \* a second session submitting through the other form

vars == <<tzOffset, now, selectedMonth, daily_notes, analysis, agents,
          selectedPanchayath, passes, agentPerformance, performanceStats,
          reportLoading, form, req, netlog, other>>

reportVars == <<agents, selectedPanchayath, passes, agentPerformance,
                performanceStats, reportLoading>>
formVars == <<form, req, netlog, other>>

(***************************************************************************)
(* The calendar.  A day is numbered from the epoch; a date string          *)
(* 'YYYY-MM-DD' is modelled by its day number (the strings order as the    *)
(* days do).  A month has MonthLen days; an instant is a number of ticks,  *)
(* TicksPerDay ticks to the day.                                           *)
(***************************************************************************)
MonthLen == 4
TicksPerDay == 2
TzOffsets == {-1, 0, 1}

FirstDay(month) == month * MonthLen
LastDay(month) == FirstDay(month + 1) - 1
MonthDays(month) == FirstDay(month) .. LastDay(month)

\* new Date('YYYY-MM-DD'): a date-only string is UTC midnight
UtcMidnight(day) == day * TicksPerDay
\* new Date(y, m, d): local midnight
LocalMidnight(day, off) == day * TicksPerDay - off
\* d.toISOString().split('T')[0]: the UTC calendar date of an instant
IsoDate(t) == t \div TicksPerDay
\* the local calendar date of an instant (getFullYear/getMonth/getDate)
LocalDate(t, off) == (t + off) \div TicksPerDay
\* d.getMonth() (with getFullYear): the local month of an instant
LocalMonth(t, off) == LocalDate(t, off) \div MonthLen

(***************************************************************************)
(* daily_notes rows and activity text.  An activity is a sequence of       *)
(* characters; " " is white space.                                         *)
(***************************************************************************)
INACTIVE_DAYS == 3
NullDate == -1

RECURSIVE TrimStart(_)
TrimStart(s) == IF s # <<>> /\ Head(s) = " " THEN TrimStart(Tail(s)) ELSE s
RECURSIVE TrimEnd(_)
TrimEnd(s) ==
    IF s # <<>> /\ s[Len(s)] = " " THEN TrimEnd(SubSeq(s, 1, Len(s) - 1)) ELSE s
\* String.prototype.trim
Trim(s) == TrimEnd(TrimStart(s))

\* (mutant) the white-space test of line 236 left out
IsLeaveDayNoTrim(noteSet) ==
    \/ noteSet = {}
    \/ \E note \in noteSet : note.is_leave \/ note.activity = <<>>

\* line 236: !note || note.is_leave || !note.activity || note.activity.trim() === ''
\* (noteSet is what notesMap.get(dateStr) finds: no row, or the row of the date)
IsLeaveDay(noteSet) ==
    \/ noteSet = {}
    \/ \E note \in noteSet :
          note.is_leave \/ note.activity = <<>> \/ Trim(note.activity) = <<>>

\* lines 249 and 260: note && !note.is_leave && note.activity && trim() !== ''
IsActivityNote(noteSet) ==
    \E note \in noteSet :
        ~note.is_leave /\ note.activity # <<>> /\ Trim(note.activity) # <<>>

\* lines 196-197: startOfMonth is UTC midnight of the 1st; endOfMonth is LOCAL
\* midnight of day 0 of the month after startOfMonth's LOCAL month
StartOfMonth(month) == UtcMidnight(FirstDay(month))
EndOfMonth(month, off) ==
    LocalMidnight(FirstDay(LocalMonth(StartOfMonth(month), off) + 1) - 1, off)

\* lines 199-205: the daily_notes query (mobile_number = ?, date >= ?, date <= ?)
FetchNotes(table, mobileNumber, month, off) ==
    { n \in table :
        /\ n.mobile_number = mobileNumber
        /\ n.date >= IsoDate(StartOfMonth(month))
        /\ n.date <= IsoDate(EndOfMonth(month, off)) }

\* lines 210-213: notesMap, here the lookup notesMap.get(dateStr)
NotesMapGet(notes, dateStr) == { n \in notes : n.date = dateStr }

\* lines 216-223: the while loop; setDate(getDate() + 1) adds one local day
RECURSIVE GenerateDates(_, _, _, _)
GenerateDates(currentDate, endOfMonth, today, allDates) ==
    IF currentDate <= endOfMonth /\ currentDate <= today
    THEN GenerateDates(currentDate + TicksPerDay, endOfMonth, today,
                       Append(allDates, IsoDate(currentDate)))
    ELSE allDates

RECURSIVE Reverse(_)
Reverse(s) == IF s = <<>> THEN <<>> ELSE Append(Reverse(Tail(s)), Head(s))

\* lines 216-226: allDates after allDates.reverse()
AllDates(month, off, clock) ==
    Reverse(GenerateDates(StartOfMonth(month), EndOfMonth(month, off), clock, <<>>))

\* (mutant) the walk without the break of line 245: every leave day is counted
RECURSIVE ConsecutiveWalkNoBreak(_, _, _)
ConsecutiveWalkNoBreak(allDates, notes, st) ==
    IF allDates = <<>> THEN st
    ELSE LET dateStr == Head(allDates)
             leave == IsLeaveDayNoTrim(NotesMapGet(notes, dateStr))
                      \/ \E n \in NotesMapGet(notes, dateStr) : Trim(n.activity) = <<>>
         IN ConsecutiveWalkNoBreak(Tail(allDates), notes,
                [count |-> IF leave THEN st.count + 1 ELSE st.count,
                 last |-> IF ~leave /\ st.last = NullDate THEN dateStr ELSE st.last])

\* lines 228-252: the descending walk; st = [count, last]
RECURSIVE ConsecutiveWalk(_, _, _)
ConsecutiveWalk(allDates, notes, st) ==
    IF allDates = <<>> THEN st
    ELSE LET dateStr == Head(allDates)
             note == NotesMapGet(notes, dateStr)
         IN IF IsLeaveDay(note)
            THEN LET counted == [st EXCEPT !.count = @ + 1]
                     tracked == IF IsActivityNote(note) /\ st.last = NullDate
                                THEN [counted EXCEPT !.last = dateStr]
                                ELSE counted
                 IN ConsecutiveWalk(Tail(allDates), notes, tracked)
            ELSE IF st.last = NullDate THEN [st EXCEPT !.last = dateStr] ELSE st

\* (mutant) the fallback scan without the white-space test of line 260
RECURSIVE FallbackScanNoTrim(_, _)
FallbackScanNoTrim(sortedDates, notes) ==
    IF sortedDates = <<>> THEN NullDate
    ELSE IF \E note \in NotesMapGet(notes, Head(sortedDates)) :
               ~note.is_leave /\ note.activity # <<>>
         THEN Head(sortedDates)
         ELSE FallbackScanNoTrim(Tail(sortedDates), notes)

\* lines 255-265: the fallback scan over the dates, most recent first
RECURSIVE FallbackScan(_, _)
FallbackScan(sortedDates, notes) ==
    IF sortedDates = <<>> THEN NullDate
    ELSE IF IsActivityNote(NotesMapGet(notes, Head(sortedDates)))
         THEN Head(sortedDates)
         ELSE FallbackScan(Tail(sortedDates), notes)

\* (mutant) more than 3 days instead of at least 3
IsInactiveStrict(consecutiveLeaveDays) == consecutiveLeaveDays > INACTIVE_DAYS

\* line 267
IsInactive(consecutiveLeaveDays) == consecutiveLeaveDays >= INACTIVE_DAYS

\* (mutant) the catch block flagging the agent
ErrorResultInactive ==
    [consecutive_leave_days |-> 0, is_inactive |-> TRUE,
     last_activity_date |-> NullDate, total_notes |-> 0]

\* lines 276-284: the catch block's result
ErrorResult ==
    [consecutive_leave_days |-> 0, is_inactive |-> FALSE,
     last_activity_date |-> NullDate, total_notes |-> 0]

\* lines 193-285
AnalyzeAgentPerformance(table, mobileNumber, month, off, clock, fetchError) ==
    IF fetchError THEN ErrorResult
    ELSE LET notes == FetchNotes(table, mobileNumber, month, off)
             allDates == AllDates(month, off, clock)
             walk == ConsecutiveWalk(allDates, notes, [count |-> 0, last |-> NullDate])
             lastActivityDate ==
                 IF walk.last = NullDate THEN FallbackScan(allDates, notes)
                 ELSE walk.last
         IN [consecutive_leave_days |-> walk.count,
             is_inactive |-> IsInactive(walk.count),
             last_activity_date |-> lastActivityDate,
             total_notes |-> Cardinality(notes)]

(***************************************************************************)
(* SpecAnalyzer: one agent, every note set of the analysed month, every    *)
(* clock value from the day before the month to two days after it, every   *)
(* time zone.                                                              *)
(***************************************************************************)
MOBILE_LEN == 10
\* the n-th well-formed mobile number; a mobile string is the first len digits of one
Mobile(n) == [n |-> n, len |-> MOBILE_LEN]

AnalyzedMonth == 1
AnalyzedAgent == Mobile(1)

Activities == {<<>>, <<" ">>, <<"v">>, <<" ", "v">>}
NoteChoices ==
    {[present |-> FALSE, is_leave |-> FALSE, activity |-> <<>>]}
    \cup {[present |-> TRUE, is_leave |-> TRUE, activity |-> <<"v">>]}
    \cup {[present |-> TRUE, is_leave |-> FALSE, activity |-> a] : a \in Activities}

\* the daily_notes rows of one agent, at most one a day
NoteRows(mobile, choice) ==
    { [mobile_number |-> mobile, date |-> d,
       is_leave |-> choice[d].is_leave, activity |-> choice[d].activity] :
      d \in {x \in DOMAIN choice : choice[x].present} }

ClockRange(month) ==
    UtcMidnight(FirstDay(month) - 1) .. (UtcMidnight(LastDay(month) + 3) - 1)

NoAnalysis ==
    [called |-> FALSE, failed |-> FALSE, mobile |-> AnalyzedAgent, month |-> 0,
     allDates |-> <<>>, fetched |-> {}, result |-> ErrorResult]

\* what one call of analyzeAgentPerformance saw and returned
Analysis(table, mobileNumber, month, off, clock, fetchError) ==
    [called |-> TRUE, failed |-> fetchError, mobile |-> mobileNumber, month |-> month,
     allDates |-> IF fetchError THEN <<>> ELSE AllDates(month, off, clock),
     fetched |-> IF fetchError THEN {} ELSE FetchNotes(table, mobileNumber, month, off),
     result |-> AnalyzeAgentPerformance(table, mobileNumber, month, off, clock, fetchError)]

NoStats == [total_agents |-> 0, inactive_agents |-> 0, inactive_percentage |-> 0]

ReportIdle ==
    /\ agents = <<>>
    /\ selectedPanchayath = 0
    /\ passes = <<>>
    /\ agentPerformance = <<>>
    /\ performanceStats = NoStats
    /\ reportLoading = FALSE

FormsIdle ==
    /\ form = <<>>
    /\ req = <<>>
    /\ netlog = <<>>
    /\ other = <<>>

InitAnalyzer ==
    /\ tzOffset \in TzOffsets
    /\ selectedMonth = AnalyzedMonth
    /\ now \in ClockRange(AnalyzedMonth)
    /\ \E choice \in [MonthDays(AnalyzedMonth) -> NoteChoices] :
          daily_notes = NoteRows(AnalyzedAgent, choice)
    /\ analysis = NoAnalysis
    /\ ReportIdle
    /\ FormsIdle

\* analyzeAgentPerformance, the daily_notes query answering
AnalyzeAgent ==
    /\ ~analysis.called
    /\ analysis' = Analysis(daily_notes, AnalyzedAgent, selectedMonth, tzOffset, now, FALSE)
    /\ UNCHANGED <<tzOffset, now, selectedMonth, daily_notes, reportVars, formVars>>

\* analyzeAgentPerformance, the daily_notes query failing (line 207)
AnalyzeAgentFetchError ==
    /\ ~analysis.called
    /\ analysis' = Analysis(daily_notes, AnalyzedAgent, selectedMonth, tzOffset, now, TRUE)
    /\ UNCHANGED <<tzOffset, now, selectedMonth, daily_notes, reportVars, formVars>>

NextAnalyzer == AnalyzeAgent \/ AnalyzeAgentFetchError

SpecAnalyzer == InitAnalyzer /\ [][NextAnalyzer]_vars

(***************************************************************************)
(* SpecReport: PerformanceReport over the four agent tables.               *)
(* A pass of fetchPerformanceData keeps what its render closed over (the   *)
(* selected panchayath and month) and its local allAgents; it advances one *)
(* table at a time: the table's query answers, then each of its agents is  *)
(* analysed in turn.  The tables do not change while the report runs.      *)
(***************************************************************************)
NumAgents == 3
MaxPasses == 2
MONTH_OPTIONS == 12
Panchayaths == {1, 2}
NoPanchayath == 0

\* lines 84, 105, 126, 147: the order the tables are read in
Tables == <<"coordinators", "supervisors", "group_leaders", "pros">>
\* lines 94, 115, 136, 157: the agent_type of a table's agents
AgentType(table) ==
    CASE table = "coordinators" -> "coordinator"
      [] table = "supervisors" -> "supervisor"
      [] table = "group_leaders" -> "group_leader"
      [] table = "pros" -> "pro"

\* line 36: new Date().toISOString().slice(0, 7)
CurrentMonth(clock) == IsoDate(clock) \div MonthLen

\* lines 300-316: new Date(y, m - i, 1).toISOString().slice(0, 7), i = 0 .. 11
MonthOptions(off, clock) ==
    { IsoDate(LocalMidnight(FirstDay(LocalMonth(clock, off) - i), off)) \div MonthLen :
        i \in 0..(MONTH_OPTIONS - 1) }

\* lines 95-101: allAgents.push({agent_id, agent_type, mobile_number, ...performance})
\* (agent_name is carried along unread and is left out)
PerformanceEntry(agent, table, performance) ==
    [agent_id |-> agent.id,
     agent_type |-> AgentType(table),
     mobile_number |-> agent.mobile_number,
     consecutive_leave_days |-> performance.consecutive_leave_days,
     is_inactive |-> performance.is_inactive,
     last_activity_date |-> performance.last_activity_date,
     total_notes |-> performance.total_notes]

\* (mutant) the quotient cut off instead of rounded
MathRoundTruncates(num, den) == num \div den

\* Math.round(num / den) for num >= 0, den > 0: ties go up
MathRound(num, den) == (2 * num + den) \div (2 * den)

\* lines 171-179; inactive_percentage is held in hundredths of a percent
\* (Math.round(inactivePercentage * 100), before the division by 100)
PerformanceStatsOf(allAgents) ==
    LET totalAgents == Len(allAgents)
        inactiveAgents == Cardinality({ i \in 1..Len(allAgents) : allAgents[i].is_inactive })
    IN [total_agents |-> totalAgents,
        inactive_agents |-> inactiveAgents,
        inactive_percentage |->
            IF totalAgents > 0
            THEN MathRound(inactiveAgents * 100 * 100, totalAgents)
            ELSE 0]

\* lines 85-88: .from(table).select(...).eq('panchayath_id', selectedPanchayath)
FetchAgents(db, table, panchayath) == { r \in db[table] : r.panchayath_id = panchayath }

\* the sequences that list a set's elements once each (the order a query answers in)
Orderings(S) ==
    { f \in [1..Cardinality(S) -> S] : \A i, j \in 1..Cardinality(S) : f[i] = f[j] => i = j }

\* (mutant) an agent whose daily_notes fetch failed is left out of the list
RECURSIVE AnalyzeRowsSkipsFailed(_, _, _, _, _, _, _, _)
AnalyzeRowsSkipsFailed(rows, table, failing, notesTable, month, off, clock, allAgents) ==
    IF rows = <<>> THEN allAgents
    ELSE LET agent == Head(rows)
             performance == AnalyzeAgentPerformance(notesTable, agent.mobile_number, month,
                                                    off, clock, FALSE)
         IN AnalyzeRowsSkipsFailed(Tail(rows), table, failing, notesTable, month, off, clock,
                IF agent.id \in failing THEN allAgents
                ELSE Append(allAgents, PerformanceEntry(agent, table, performance)))

\* lines 93-102: for (const agent of rows) { analyze; allAgents.push(...) }
RECURSIVE AnalyzeRows(_, _, _, _, _, _, _, _)
AnalyzeRows(rows, table, failing, notesTable, month, off, clock, allAgents) ==
    IF rows = <<>> THEN allAgents
    ELSE LET agent == Head(rows)
             performance == AnalyzeAgentPerformance(notesTable, agent.mobile_number, month,
                                                    off, clock, agent.id \in failing)
         IN AnalyzeRows(Tail(rows), table, failing, notesTable, month, off, clock,
                        Append(allAgents, PerformanceEntry(agent, table, performance)))

AgentRow(id, mobile, panchayath, ward, leader, rating) ==
    [id |-> id, mobile_number |-> mobile, panchayath_id |-> panchayath,
     ward |-> ward, group_leader_id |-> leader, rating |-> rating]

\* the report's clock: the last tick of the month after AnalyzedMonth
ReportClock == UtcMidnight(FirstDay(AnalyzedMonth + 2)) - 1
\* the months the report is asked for: the clock's month and the one before
ReportMonths == {AnalyzedMonth, AnalyzedMonth + 1}
ReportDays == FirstDay(AnalyzedMonth) .. LastDay(AnalyzedMonth + 1)
\* the notes of agent i: the odd agents have none, the even ones an activity
\* note on every day
ProfileRows(i) ==
    IF i % 2 = 1 THEN {}
    ELSE { [mobile_number |-> Mobile(i), date |-> d, is_leave |-> FALSE,
            activity |-> <<"v">>] : d \in ReportDays }

\* agent i is a row of table i (modulo the four tables)
TableOfAgent(i) == Tables[((i - 1) % Len(Tables)) + 1]

\* (the report runs in a UTC browser; SpecAnalyzer covers the other zones)
InitReport ==
    /\ tzOffset = 0
    /\ now = ReportClock
    /\ selectedMonth = CurrentMonth(now)
    /\ \E place \in [1..NumAgents -> Panchayaths] :
          agents = [t \in {Tables[k] : k \in 1..Len(Tables)} |->
                      { AgentRow(i, Mobile(i), place[i], 1, 0, 0) :
                          i \in { j \in 1..NumAgents : TableOfAgent(j) = t } }]
    /\ daily_notes = UNION { ProfileRows(i) : i \in 1..NumAgents }
    /\ analysis = NoAnalysis
    /\ selectedPanchayath = NoPanchayath
    /\ passes = <<>>
    /\ agentPerformance = <<>>
    /\ performanceStats = NoStats
    /\ reportLoading = FALSE
    /\ FormsIdle

\* lines 77-81: a pass starts: the guard, then setLoading(true)
StartPass(panchayath, month) ==
    /\ passes' = Append(passes, [panchayath |-> panchayath, month |-> month,
                                 step |-> 1, status |-> "running", allAgents |-> <<>>])
    /\ reportLoading' = TRUE

\* the panchayath Select's onValueChange, then the effect of lines 52-56
SelectPanchayath(p) ==
    /\ p # selectedPanchayath
    /\ Len(passes) < MaxPasses
    /\ selectedPanchayath' = p
    /\ StartPass(p, selectedMonth)
    /\ UNCHANGED <<tzOffset, now, selectedMonth, daily_notes, analysis, agents,
                   agentPerformance, performanceStats, formVars>>

\* the month Select's onValueChange, then the effect of lines 52-56
SelectMonth(m) ==
    /\ m # selectedMonth
    /\ Len(passes) < MaxPasses
    /\ selectedMonth' = m
    /\ IF selectedPanchayath # NoPanchayath
       THEN StartPass(selectedPanchayath, m)
       ELSE UNCHANGED <<passes, reportLoading>>
    /\ UNCHANGED <<tzOffset, now, daily_notes, analysis, agents, selectedPanchayath,
                   agentPerformance, performanceStats, formVars>>

\* a pass that has returned: its closure and locals are gone
Returned(status) ==
    [panchayath |-> NoPanchayath, month |-> 0, step |-> 0, status |-> status,
     allAgents |-> <<>>]

\* lines 85-166: the query of the pass's next table answers and its agents are
\* analysed (some of their daily_notes queries may fail); after the last table,
\* lines 168-179 and the finally of line 189
PassTable(i) ==
    LET pass == passes[i]
        table == Tables[pass.step]
        found == FetchAgents(agents, table, pass.panchayath)
    IN /\ pass.status = "running"
       /\ \E failing \in SUBSET { r.id : r \in found } :
          \E rows \in Orderings(found) :
             LET allAgents == AnalyzeRows(rows, table, failing, daily_notes, pass.month,
                                          tzOffset, now, pass.allAgents)
             IN IF pass.step < Len(Tables)
                THEN /\ passes' = [passes EXCEPT ![i].step = @ + 1,
                                                 ![i].allAgents = allAgents]
                     /\ UNCHANGED <<agentPerformance, performanceStats, reportLoading>>
                ELSE /\ passes' = [passes EXCEPT ![i] = Returned("done")]
                     /\ agentPerformance' = allAgents
                     /\ performanceStats' = PerformanceStatsOf(allAgents)
                     /\ reportLoading' = FALSE
       /\ UNCHANGED <<tzOffset, now, selectedMonth, daily_notes, analysis, agents,
                      selectedPanchayath, formVars>>

\* lines 90, 111, 132, 153: the table's query fails; the catch of line 181 and the
\* finally of line 189
PassTableError(i) ==
    /\ passes[i].status = "running"
    /\ passes' = [passes EXCEPT ![i] = Returned("failed")]
    /\ reportLoading' = FALSE
    /\ UNCHANGED <<tzOffset, now, selectedMonth, daily_notes, analysis, agents,
                   selectedPanchayath, agentPerformance, performanceStats, formVars>>

NextReport ==
    \/ \E p \in Panchayaths : SelectPanchayath(p)
    \/ \E m \in MonthOptions(tzOffset, now) \cap ReportMonths : SelectMonth(m)
    \/ \E i \in 1..Len(passes) : PassTable(i)
    \/ \E i \in 1..Len(passes) : PassTableError(i)

SpecReport == InitReport /\ [][NextReport]_vars

(***************************************************************************)
(* SpecForms: one mounted form component (CoordinatorForm or ProForm)      *)
(* against the agent tables.                                               *)
(*                                                                         *)
(* Text fields.  A name is a sequence of characters.  A mobile string is   *)
(* the first len digits of the n-th number (the input's onChange keeps     *)
(* digits only).  A ward or rating string is empty, the decimal text of an *)
(* integer, or text that is no number.                                     *)
(***************************************************************************)
RATING_MAX == 10
MaxInserts == 1
MaxPending == 1
NumMobiles == 2

EmptyMobile == [n |-> 0, len |-> 0]
EmptyStr == [kind |-> "empty", val |-> 0]
JunkStr == [kind |-> "text", val |-> 0]
\* n.toString()
Str(n) == [kind |-> "int", val |-> n]
\* parseInt / parseFloat: NaN for the empty string and for text
ParseNumber(s) == [nan |-> s.kind # "int", val |-> s.val]

\* lines 288-291 (CoordinatorForm), 306-309 (ProForm):
\* e.target.value.replace(/\D/g, '').slice(0, 10)
SanitizeMobile(typed) ==
    IF typed.digits = 0 THEN EmptyMobile
    ELSE [n |-> typed.n,
          len |-> IF typed.digits > MOBILE_LEN THEN MOBILE_LEN ELSE typed.digits]

\* (mutant) a test for at most 10 digits
MobileRegexAtMost(mobile) == mobile.len <= MOBILE_LEN

\* line 88 / 123: /^\d{10}$/.test(mobile.trim()); a mobile string has no white space
MobileRegex(mobile) == mobile.len = MOBILE_LEN

\* panchayaths rows: panchayath p has p wards
NumberOfWards(p) == p
MaxPanchayath == CHOOSE p \in Panchayaths : \A q \in Panchayaths : q <= p

\* (mutant) both forms name the pros table
OwnTableAlwaysPros(kind) == "pros"

\* line 121 / 144: the targetTable handed to checkMobileDuplicate, the table of
\* lines 137, 162 / 157, 180
OwnTable(kind) == IF kind = "coordinator" THEN "coordinators" ELSE "pros"
NoRow == AgentRow(0, EmptyMobile, NoPanchayath, 0, 0, 0)

\* useState initial values, lines 19-28 of both forms, with the props
InitialForm(kind, pre, editing) ==
    [kind |-> kind, pre |-> pre, editing |-> editing,
     name |-> <<>>, mobile |-> EmptyMobile, ward |-> EmptyStr, rating |-> EmptyStr,
     groupLeaderId |-> 0, groupLeaders |-> {},
     panchayathId |-> NoPanchayath, panchayaths |-> {},
     selectedPanchayath |-> NoPanchayath,
     loading |-> FALSE, showConfirmation |-> FALSE,
     panchayathsPending |-> FALSE, glPending |-> {}]

\* panchayaths.find(p => p.id === panchayathId): undefined (as null) when absent
FindPanchayath(panchayaths, id) == IF id \in panchayaths THEN id ELSE NoPanchayath

\* CoordinatorForm lines 52-60, ProForm lines 53-62: the effect on
\* [panchayathId, panchayaths], run with the values of render cur
PanchayathEffect(cur, st) ==
    IF cur.panchayathId # NoPanchayath
    THEN [st EXCEPT !.selectedPanchayath = FindPanchayath(cur.panchayaths, cur.panchayathId),
                    !.ward = EmptyStr,
                    !.groupLeaderId = IF cur.kind = "pro" THEN 0 ELSE @]
    ELSE [st EXCEPT !.selectedPanchayath = NoPanchayath]

\* ProForm lines 89-93: the group leaders of a ward; a ward that is not a number
\* is refused by the backend.  No form writes group_leaders, so the answer of a
\* query is settled when the query is issued
GroupLeadersQuery(db, panchayath, wardNum) ==
    [ok |-> ~wardNum.nan,
     ids |-> { g.id : g \in { x \in db["group_leaders"] :
                 /\ ~wardNum.nan
                 /\ x.panchayath_id = panchayath
                 /\ x.ward = wardNum.val } }]

\* ProForm lines 64-71 and 87-95: the effect on [ward, panchayathId]; the fetch of
\* the ward's group leaders is left in flight
GroupLeaderEffect(cur, st) ==
    IF cur.ward # EmptyStr /\ cur.panchayathId # NoPanchayath
    THEN [st EXCEPT !.glPending =
             @ \cup {GroupLeadersQuery(agents, cur.panchayathId, ParseNumber(cur.ward))}]
    ELSE [st EXCEPT !.groupLeaders = {}, !.groupLeaderId = 0]

\* the effects whose dependencies differ between render prev and render cur
RunEffects(prev, cur) ==
    LET s4 == IF prev.panchayathId # cur.panchayathId \/ prev.panchayaths # cur.panchayaths
              THEN PanchayathEffect(cur, cur) ELSE cur
    IN IF cur.kind = "pro" /\ (prev.ward # cur.ward \/ prev.panchayathId # cur.panchayathId)
       THEN GroupLeaderEffect(cur, s4) ELSE s4

\* render, run the effects, render again, until no effect is due
RECURSIVE Settle(_, _)
Settle(prev, cur) ==
    LET next == RunEffects(prev, cur)
    IN IF next = cur THEN cur ELSE Settle(cur, next)

\* the mount: every effect runs once with the initial values (CoordinatorForm lines
\* 32-60, ProForm lines 33-71), then the component settles
\* (the edited row's number is read from the column the form writes it to)
MountForm(kind, pre, editing) ==
    LET s0 == InitialForm(kind, pre, editing)
        s1 == [s0 EXCEPT !.panchayathsPending = TRUE]
        s2 == IF pre # NoPanchayath THEN [s1 EXCEPT !.panchayathId = pre] ELSE s1
        s3 == IF editing # NoRow
              THEN [s2 EXCEPT !.name = <<"n">>,
                              !.mobile = editing.mobile_number,
                              !.ward = Str(editing.ward),
                              !.rating = IF kind = "coordinator" THEN Str(editing.rating) ELSE @,
                              !.groupLeaderId = IF kind = "pro" THEN editing.group_leader_id ELSE @,
                              !.panchayathId = editing.panchayath_id]
              ELSE s2
        s4 == PanchayathEffect(s0, s3)
        s5 == IF kind = "pro" THEN GroupLeaderEffect(s0, s4) ELSE s4
    IN Settle(s0, s5)

(***************************************************************************)
(* handleSubmit.  The handler runs to its first await in one step; the     *)
(* answers of the duplicate check and of the write are steps of their own. *)
(* req holds what the handler closed over (the render's state) and how the *)
(* last submit event ended; netlog lists the calls that event issued.      *)
(***************************************************************************)
\* (mutant) the upper limit of the ward left out
WardRejectedNoUpper(wardNum, numberOfWards) == wardNum.nan \/ wardNum.val < 1

\* line 100 / 132: isNaN(wardNum) || wardNum < 1 || wardNum > number_of_wards
WardRejected(wardNum, numberOfWards) ==
    wardNum.nan \/ wardNum.val < 1 \/ wardNum.val > numberOfWards

\* line 109: isNaN(ratingNum) || ratingNum < 0 || ratingNum > 10
RatingRejected(ratingNum) ==
    ratingNum.nan \/ ratingNum.val < 0 \/ ratingNum.val > RATING_MAX

\* CoordinatorForm line 78; ProForm lines 108-110
FieldMissing(f) ==
    IF f.kind = "coordinator"
    THEN \/ Trim(f.name) = <<>>
         \/ f.mobile = EmptyMobile
         \/ f.ward = EmptyStr
         \/ f.rating = EmptyStr
         \/ f.panchayathId = NoPanchayath
    ELSE LET isEditing == f.editing # NoRow
             effectivePanchayathId ==
                 IF isEditing /\ f.editing.panchayath_id # NoPanchayath
                 THEN f.editing.panchayath_id ELSE f.panchayathId
         IN \/ Trim(f.name) = <<>>
            \/ f.mobile = EmptyMobile
            \/ f.ward = EmptyStr
            \/ f.groupLeaderId = 0
            \/ (effectivePanchayathId = NoPanchayath /\ ~isEditing)

\* CoordinatorForm lines 78-116; ProForm lines 110-139: the checks before
\* setLoading(true).  Reading number_of_wards of a null selectedPanchayath throws.
Validate(f) ==
    IF FieldMissing(f) THEN "missing"
    ELSE IF ~MobileRegex(f.mobile) THEN "bad_mobile"
    ELSE IF f.selectedPanchayath = NoPanchayath THEN "threw"
    ELSE IF WardRejected(ParseNumber(f.ward), NumberOfWards(f.selectedPanchayath))
         THEN "bad_ward"
    ELSE IF f.kind = "coordinator" /\ RatingRejected(ParseNumber(f.rating))
         THEN "bad_rating"
    ELSE "ok"

\* checkMobileDuplicate of @/lib/mobileValidation: the first table, in the fixed
\* order, holding a row with the number, the row excludeId of targetTable left out
DuplicateTables(db, mobile, excludeId, targetTable) ==
    { k \in 1..Len(Tables) :
        \E r \in db[Tables[k]] :
            /\ r.mobile_number = mobile
            /\ ~(Tables[k] = targetTable /\ r.id = excludeId) }
CheckMobileDuplicate(db, mobile, excludeId, targetTable) ==
    LET found == DuplicateTables(db, mobile, excludeId, targetTable)
    IN IF found = {} THEN [isDuplicate |-> FALSE, table |-> ""]
       ELSE [isDuplicate |-> TRUE,
             table |-> Tables[CHOOSE k \in found : \A j \in found : k <= j]]

\* (mutant) a duplicate never stops the submission
SubmissionNeverAborts(duplicateCheck, ownTable) == FALSE

\* (mutant) only a duplicate in the form's own table stops the submission
SubmissionAbortsOwnTableOnly(duplicateCheck, ownTable) ==
    duplicateCheck.isDuplicate /\ duplicateCheck.table = ownTable

\* line 122 / 145: if (duplicateCheck.isDuplicate) { toast; setLoading(false); return }
SubmissionAborts(duplicateCheck, ownTable) == duplicateCheck.isDuplicate

\* the rows the tables hold when the form mounts: a group leader, and possibly a
\* row of the form's own table
GroupLeaderRow == AgentRow(2, Mobile(2), MaxPanchayath, 1, 0, 0)
OwnRow(kind) ==
    AgentRow(1, Mobile(1), MaxPanchayath, 1, IF kind = "pro" THEN GroupLeaderRow.id ELSE 0,
             IF kind = "coordinator" THEN RATING_MAX \div 2 ELSE 0)

\* a second row of the form's own table that holds the same number as OwnRow
\* (rows that predate the duplicate check)
TwinRow(kind) == [OwnRow(kind) EXCEPT !.id = GroupLeaderRow.id + 1, !.ward = @ + 1]

\* the rows written since the form was mounted
Inserted(db) ==
    { r \in UNION { db[Tables[k]] : k \in 1..Len(Tables) } : r.id > TwinRow("pro").id }
AllRows(db) == UNION { db[Tables[k]] : k \in 1..Len(Tables) }
\* the id the backend gives a new row
NextId(db) ==
    LET ids == {r.id : r \in AllRows(db)} \cup {TwinRow("pro").id}
    IN 1 + (CHOOSE m \in ids : \A id \in ids : id <= m)

Call(name, table) == [call |-> name, table |-> table]

\* no handler is running: nothing is closed over
NoClosure == InitialForm("", NoPanchayath, NoRow)
\* the description of the error toast.  A write error is named by what its
\* message holds: "mobile_number" and "panchayath_id, ward" are unique violations
\* (code 23505) whose message names those columns; "" is an Error thrown by the
\* client.  CoordinatorForm lines 195-202 map the message; ProForm line 225
\* shows error.message as it is
NoMessage == [text |-> "", raw |-> ""]
ErrorDescription(kind, isEditing, error) ==
    LET failed == IF isEditing THEN "Failed to update" ELSE "Failed to add"
    IN IF kind = "coordinator"
       THEN IF error = "mobile_number"
            THEN [text |-> "This mobile number is already registered", raw |-> ""]
            ELSE IF error = "panchayath_id, ward"
            THEN [text |-> "A coordinator is already assigned to this ward", raw |-> ""]
            ELSE [text |-> failed, raw |-> ""]
       ELSE IF error # "" THEN [text |-> "error.message", raw |-> error]
            ELSE [text |-> failed, raw |-> ""]

\* the handler has returned; outcome "error" is the catch block, whose toast
\* shows message
Idle(outcome, table) ==
    [phase |-> "idle", outcome |-> outcome, table |-> table, closure |-> NoClosure,
     message |-> IF outcome = "error"
                 THEN ErrorDescription(form.kind, form.editing # NoRow, table)
                 ELSE NoMessage]

\* the form's onSubmit: lines 76-121 (CoordinatorForm), 104-144 (ProForm)
Submit ==
    /\ req.phase = "idle"
    /\ ~form.loading
    /\ Validate(form) = "ok" =>
          Cardinality(Inserted(agents) \cap agents[OwnTable(form.kind)]) < MaxInserts
    /\ LET outcome == Validate(form)
       IN IF outcome = "ok"
          THEN /\ form' = [form EXCEPT !.loading = TRUE]
               /\ req' = [phase |-> "checking", outcome |-> "pending", table |-> "",
                          closure |-> form, message |-> NoMessage]
               /\ netlog' = <<Call("duplicate_check", OwnTable(form.kind))>>
          ELSE /\ form' = form
               /\ req' = Idle(outcome, "")
               /\ netlog' = <<>>
    /\ UNCHANGED <<tzOffset, now, selectedMonth, daily_notes, analysis, reportVars, other>>

\* the duplicate check answers: lines 121-169 (CoordinatorForm), 144-187 (ProForm)
DuplicateCheckAnswers ==
    /\ req.phase = "checking"
    /\ LET c == req.closure
           own == OwnTable(c.kind)
           duplicateCheck == CheckMobileDuplicate(agents, c.mobile, c.editing.id, own)
       IN IF SubmissionAborts(duplicateCheck, own)
          THEN /\ form' = [form EXCEPT !.loading = FALSE]
               /\ req' = Idle("duplicate", duplicateCheck.table)
               /\ netlog' = netlog
          ELSE /\ form' = form
               /\ req' = [req EXCEPT !.phase = "writing"]
               /\ netlog' = Append(netlog,
                      Call(IF c.editing # NoRow THEN "update" ELSE "insert", own))
    /\ UNCHANGED <<tzOffset, now, selectedMonth, daily_notes, analysis, reportVars, other>>

\* the duplicate check fails: the catch and finally of lines 193-210 / 221-230
DuplicateCheckFails ==
    /\ req.phase = "checking"
    /\ form' = [form EXCEPT !.loading = FALSE]
    /\ req' = Idle("error", "")
    /\ netlog' = netlog
    /\ UNCHANGED <<tzOffset, now, selectedMonth, daily_notes, analysis, reportVars, other>>

\* the row an insert or update writes (lines 138-143, 163-169 / 158-163, 181-187)
WrittenRow(c, id, panchayath) ==
    AgentRow(id, c.mobile, panchayath, ParseNumber(c.ward).val,
             IF c.kind = "pro" THEN c.groupLeaderId ELSE 0,
             IF c.kind = "coordinator" THEN ParseNumber(c.rating).val ELSE 0)

\* lines 184-191 (CoordinatorForm), 202-219 (ProForm): the fields after an add
ResetAfterAdd(f) ==
    [f EXCEPT !.showConfirmation = TRUE,
              !.name = <<>>,
              !.mobile = EmptyMobile,
              !.ward = EmptyStr,
              !.rating = IF f.kind = "coordinator" THEN EmptyStr ELSE @,
              !.groupLeaderId = IF f.kind = "pro" THEN 0 ELSE @,
              !.panchayathId = IF f.kind = "coordinator" \/ f.pre = NoPanchayath
                               THEN NoPanchayath ELSE @]

\* the backend accepts the write: lines 136-191 (CoordinatorForm), 156-219 (ProForm).
\* (onEditComplete belongs to the parent; the form stays mounted with its props)
WriteAnswers ==
    /\ req.phase = "writing"
    /\ LET c == req.closure
           own == OwnTable(c.kind)
           target == { r \in agents[own] : r.id = c.editing.id }
       IN IF c.editing # NoRow
          THEN IF target = {}
               THEN \* updated.length === 0: the Error of line 151 / 169
                    /\ agents' = agents
                    /\ form' = [form EXCEPT !.loading = FALSE]
                    /\ req' = Idle("error", "")
               ELSE /\ agents' = [agents EXCEPT ![own] =
                          (@ \ target)
                          \cup { WrittenRow(c, r.id, r.panchayath_id) : r \in target }]
                    /\ form' = [form EXCEPT !.loading = FALSE]
                    /\ req' = Idle("updated", "")
          ELSE /\ agents' = [agents EXCEPT ![own] =
                     @ \cup { WrittenRow(c, NextId(agents), c.panchayathId) }]
               /\ form' = Settle(form, [ResetAfterAdd(form) EXCEPT !.loading = FALSE])
               /\ req' = Idle("added", "")
    /\ netlog' = netlog
    /\ UNCHANGED <<tzOffset, now, selectedMonth, daily_notes, analysis,
                   selectedPanchayath, passes, agentPerformance, performanceStats,
                   reportLoading, other>>

\* (mutant) the catch block also resets the fields
WriteFailsClearing(error) ==
    /\ req.phase = "writing"
    /\ form' = Settle(form, [ResetAfterAdd(form) EXCEPT !.loading = FALSE,
                                                        !.showConfirmation = FALSE])
    /\ req' = Idle("error", error)
    /\ netlog' = netlog
    /\ UNCHANGED <<tzOffset, now, selectedMonth, daily_notes, analysis, reportVars, other>>

\* the backend rejects the write: lines 193-210 (CoordinatorForm), 221-230 (ProForm)
WriteFails(error) ==
    /\ req.phase = "writing"
    /\ form' = [form EXCEPT !.loading = FALSE]
    /\ req' = Idle("error", error)
    /\ netlog' = netlog
    /\ UNCHANGED <<tzOffset, now, selectedMonth, daily_notes, analysis, reportVars, other>>

(***************************************************************************)
(* The user's input, the answers of the form's fetches, and SpecForms: one  *)
(* mounted form (CoordinatorForm or ProForm) over the four agent tables.    *)
(***************************************************************************)
formsFrame == <<tzOffset, now, selectedMonth, daily_notes, analysis, reportVars, other>>

\* a state setter called from an event or a fetch's answer, then the effects.
\* req and netlog describe the latest event: once the handler has returned,
\* the next event clears them
SetState(next) ==
    /\ next # form
    /\ form' = Settle(form, next)
    /\ IF req.phase = "idle"
       THEN req' = Idle("none", "") /\ netlog' = <<>>
       ELSE UNCHANGED <<req, netlog>>
    /\ UNCHANGED formsFrame

Names == {<<"n">>}
\* what is typed in the mobile field: a number of so many digits
TypedMobiles ==
    [n : 1..NumMobiles, digits : {MOBILE_LEN, MOBILE_LEN + 1}]
        \cup {[n |-> 1, digits |-> MOBILE_LEN - 1]}
\* the values handed to setWard: the component's own options are
\* 1..number_of_wards; lines 97-107 (121-139) exist for any other value
WardInputs == {Str(w) : w \in 0..(NumberOfWards(MaxPanchayath) + 1)} \cup {JunkStr}
RatingInputs == {Str(RATING_MAX \div 2), Str(RATING_MAX + 1)}

\* onChange of the name input
TypeName(v) == SetState([form EXCEPT !.name = v])
\* onChange of the mobile input, lines 288-291 / 306-309
TypeMobile(typed) == SetState([form EXCEPT !.mobile = SanitizeMobile(typed)])
\* onValueChange of the ward Select, disabled={!selectedPanchayath}
ChooseWard(w) ==
    /\ form.selectedPanchayath # NoPanchayath
    /\ Cardinality(form.glPending) < MaxPending
    /\ SetState([form EXCEPT !.ward = w])
\* onChange of the rating input (CoordinatorForm)
TypeRating(v) ==
    /\ form.kind = "coordinator"
    /\ SetState([form EXCEPT !.rating = v])
\* onValueChange of the group leader Select (ProForm), rendered when ward is set
ChooseGroupLeader(id) ==
    /\ form.kind = "pro"
    /\ form.ward # EmptyStr
    /\ id \in form.groupLeaders
    /\ SetState([form EXCEPT !.groupLeaderId = id])
\* onValueChange of the panchayath Select, rendered when nothing is pre-selected
\* and no record is edited
ChoosePanchayath(p) ==
    /\ form.pre = NoPanchayath
    /\ form.editing = NoRow
    /\ p \in form.panchayaths
    /\ SetState([form EXCEPT !.panchayathId = p])
\* the confirmation dialog is closed
CloseConfirmation ==
    /\ form.showConfirmation
    /\ SetState([form EXCEPT !.showConfirmation = FALSE])

\* fetchPanchayaths answers: setPanchayaths(data || [])
PanchayathsLoaded ==
    /\ form.panchayathsPending
    /\ SetState([form EXCEPT !.panchayathsPending = FALSE, !.panchayaths = Panchayaths])
\* fetchPanchayaths fails: the error is logged
PanchayathsFailed ==
    /\ form.panchayathsPending
    /\ SetState([form EXCEPT !.panchayathsPending = FALSE])
\* fetchGroupLeadersForWard answers, lines 87-102: setGroupLeaders(data || [])
GroupLeadersLoaded(r) ==
    /\ r \in form.glPending
    /\ r.ok
    /\ SetState([form EXCEPT !.glPending = @ \ {r}, !.groupLeaders = r.ids])
\* fetchGroupLeadersForWard fails: the error is logged
GroupLeadersFailed(r) ==
    /\ r \in form.glPending
    /\ SetState([form EXCEPT !.glPending = @ \ {r}])

\* the second session has not submitted
OtherIdle == [phase |-> "idle", mobile |-> EmptyMobile]

InitForms ==
    /\ tzOffset = 0
    /\ now = 0
    /\ selectedMonth = AnalyzedMonth
    /\ daily_notes = {}
    /\ analysis = NoAnalysis
    /\ selectedPanchayath = NoPanchayath
    /\ passes = <<>>
    /\ agentPerformance = <<>>
    /\ performanceStats = NoStats
    /\ reportLoading = FALSE
    /\ \E kind \in {"coordinator", "pro"}, hasOwn \in BOOLEAN, edit \in BOOLEAN,
          twin \in BOOLEAN, pre \in {NoPanchayath, MaxPanchayath} :
          /\ edit => hasOwn
          /\ twin => edit /\ pre = NoPanchayath
          /\ agents = [t \in {Tables[k] : k \in 1..Len(Tables)} |->
                         (IF t = "group_leaders" THEN {GroupLeaderRow} ELSE {})
                         \cup (IF hasOwn /\ t = OwnTable(kind) THEN {OwnRow(kind)} ELSE {})
                         \cup (IF twin /\ t = OwnTable(kind) THEN {TwinRow(kind)} ELSE {})]
          /\ form = MountForm(kind, pre, IF edit THEN OwnRow(kind) ELSE NoRow)
    /\ req = Idle("none", "")
    /\ netlog = <<>>
    /\ other = OtherIdle

NextForms ==
    \/ \E v \in Names : TypeName(v)
    \/ \E typed \in TypedMobiles : TypeMobile(typed)
    \/ \E w \in WardInputs : ChooseWard(w)
    \/ \E v \in RatingInputs : TypeRating(v)
    \/ \E id \in {GroupLeaderRow.id} : ChooseGroupLeader(id)
    \/ \E p \in Panchayaths : ChoosePanchayath(p)
    \/ CloseConfirmation
    \/ PanchayathsLoaded
    \/ PanchayathsFailed
    \/ \E r \in form.glPending : GroupLeadersLoaded(r)
    \/ \E r \in form.glPending : GroupLeadersFailed(r)
    \/ Submit
    \/ DuplicateCheckAnswers
    \/ DuplicateCheckFails
    \/ WriteAnswers
    \/ \E error \in {"mobile_number", "panchayath_id, ward", "other"} : WriteFails(error)

SpecForms == InitForms /\ [][NextForms]_vars

(***************************************************************************)
(* SpecRace: the mounted form adds records while a second session adds one  *)
(* through the other form (CoordinatorForm next to ProForm).  The second    *)
(* session runs the same handleSubmit on a valid form; only its await       *)
(* points are kept: submit, the duplicate check's answer, the insert.       *)
(***************************************************************************)
OtherKind == IF form.kind = "coordinator" THEN "pro" ELSE "coordinator"
raceFrame == <<tzOffset, now, selectedMonth, daily_notes, analysis, selectedPanchayath,
               passes, agentPerformance, performanceStats, reportLoading,
               form, req, netlog>>

\* lines 76-121 / 104-144 in the second session: the checks pass, the duplicate
\* check is issued
OtherSubmit(n) ==
    /\ other.phase = "idle"
    /\ other' = [phase |-> "checking", mobile |-> Mobile(n)]
    /\ UNCHANGED <<agents, raceFrame>>

\* lines 121-130 / 144-153 in the second session
OtherCheckAnswers ==
    /\ other.phase = "checking"
    /\ LET own == OwnTable(OtherKind)
           duplicateCheck == CheckMobileDuplicate(agents, other.mobile, NoRow.id, own)
       IN other' = [other EXCEPT !.phase = IF SubmissionAborts(duplicateCheck, own)
                                           THEN "aborted" ELSE "writing"]
    /\ UNCHANGED <<agents, raceFrame>>

\* lines 160-169 / 178-187 in the second session: the insert is accepted
OtherWriteAnswers ==
    /\ other.phase = "writing"
    /\ agents' = [agents EXCEPT ![OwnTable(OtherKind)] =
           @ \cup { AgentRow(NextId(agents), other.mobile, MaxPanchayath, 1,
                             IF OtherKind = "pro" THEN GroupLeaderRow.id ELSE 0,
                             IF OtherKind = "coordinator" THEN RATING_MAX \div 2 ELSE 0) }]
    /\ other' = [other EXCEPT !.phase = "done"]
    /\ UNCHANGED raceFrame

\* the form is mounted for adding, nothing pre-selected, its table empty
InitRace ==
    /\ InitForms
    /\ form.editing = NoRow
    /\ form.pre = NoPanchayath
    /\ agents[OwnTable(form.kind)] = {}

NextRace ==
    \/ NextForms
    \/ \E n \in 1..NumMobiles : OtherSubmit(n)
    \/ OtherCheckAnswers
    \/ OtherWriteAnswers

SpecRace == InitRace /\ [][NextRace]_vars

(***************************************************************************)
(* Claims about the analyzer, stated over the daily_notes table itself.    *)
(***************************************************************************)
Analyzed == analysis.called /\ ~analysis.failed

\* the rows of the analysed agent dated d
RowsOn(d) == { n \in daily_notes : n.mobile_number = analysis.mobile /\ n.date = d }
Blank(activity) == \A i \in 1..Len(activity) : activity[i] = " "
\* a leave day: no note, or a note with is_leave, or a note with blank activity
LeaveDate(d) == RowsOn(d) = {} \/ \E n \in RowsOn(d) : n.is_leave \/ Blank(n.activity)
\* the dates the call enumerated, most recent first, and as a set
Window == analysis.allDates
WindowDates == { Window[i] : i \in 1..Len(Window) }
\* the calendar's window: the days of the month up to the clock's (UTC) date
CalendarWindow == { d \in MonthDays(analysis.month) : d <= IsoDate(now) }
SetMax(S) == CHOOSE x \in S : \A y \in S : y <= x

\* C1: consecutive_leave_days is the number of dates scanned from the most recent
\* date of the enumerated window backwards, up to and not including the first
\* non-leave date (the window is walked most recent first, day by day).
C1_ConsecutiveLeaveDays ==
    Analyzed =>
        LET k == analysis.result.consecutive_leave_days
        IN /\ k \in 0..Len(Window)
           /\ \A i \in 1..(Len(Window) - 1) : Window[i + 1] = Window[i] - 1
           /\ \A i \in 1..k : LeaveDate(Window[i])
           /\ k < Len(Window) => ~LeaveDate(Window[k + 1])

\* C1 witness: the two most recent dates are leave days, the third is active
C1_Witness ==
    /\ Analyzed
    /\ Len(Window) >= 3
    /\ LeaveDate(Window[1]) /\ LeaveDate(Window[2]) /\ ~LeaveDate(Window[3])
    /\ analysis.result.consecutive_leave_days = 2
    /\ ~analysis.result.is_inactive

\* C2 as claimed (here for a browser in UTC and today a day of the selected
\* month): if today and the two calendar days before it are leave days, the
\* analyzer reports is_inactive.
C2_Original ==
    (/\ Analyzed
     /\ tzOffset = 0
     /\ IsoDate(now) \in MonthDays(analysis.month)
     /\ \A d \in (IsoDate(now) - 2)..IsoDate(now) : LeaveDate(d))
    => analysis.result.is_inactive

\* C2 amended: if the enumerated window holds at least 3 dates and its 3 most
\* recent dates are leave days, is_inactive is true; a window of fewer than 3
\* dates never gives is_inactive, whatever the days before the month were.
C2_InactiveAfterThreeLeaveDays ==
    Analyzed =>
        /\ (Len(Window) >= INACTIVE_DAYS /\ \A i \in 1..INACTIVE_DAYS : LeaveDate(Window[i]))
              => analysis.result.is_inactive
        /\ Len(Window) < INACTIVE_DAYS => ~analysis.result.is_inactive

\* C2 witness: a window of at least 3 dates whose 3 most recent are leave days
C2_Witness ==
    /\ Analyzed
    /\ Len(Window) >= INACTIVE_DAYS
    /\ \A i \in 1..INACTIVE_DAYS : LeaveDate(Window[i])
    /\ analysis.result.is_inactive

\* C3 as claimed: the enumerated window is exactly the days of the selected month
\* up to today, and the notes fetched are the agent's notes dated in the month.
C3_WindowIsMonthUpToToday ==
    Analyzed =>
        /\ WindowDates = CalendarWindow
        /\ analysis.fetched =
              { n \in daily_notes :
                  n.mobile_number = analysis.mobile /\ n.date \in MonthDays(analysis.month) }

\* C4: is_inactive holds exactly when consecutive_leave_days >= 3, in every
\* result, the fetch-error result included.
C4_InactiveIffThreeDays ==
    analysis.called =>
        (analysis.result.is_inactive <=> analysis.result.consecutive_leave_days >= 3)

\* C4 witness: a streak of exactly 3 days, reported inactive
C4_Witness ==
    /\ Analyzed
    /\ analysis.result.consecutive_leave_days = 3
    /\ analysis.result.is_inactive

\* C5 as claimed: with no note of the agent in the selected month,
\* consecutive_leave_days is the number of days of the month up to today,
\* last_activity_date is null and is_inactive holds iff that number is >= 3.
C5_NoNotesCountsWholeWindow ==
    (/\ Analyzed
     /\ \A d \in MonthDays(analysis.month) : RowsOn(d) = {})
    => /\ analysis.result.consecutive_leave_days = Cardinality(CalendarWindow)
       /\ analysis.result.last_activity_date = NullDate
       /\ analysis.result.is_inactive <=> Cardinality(CalendarWindow) >= 3

\* C6: last_activity_date is the most recent date of the enumerated window with a
\* non-leave note, and null exactly when the window has no such date.
C6_LastActivityDate ==
    Analyzed =>
        LET active == { d \in WindowDates : ~LeaveDate(d) }
        IN IF active = {}
           THEN analysis.result.last_activity_date = NullDate
           ELSE analysis.result.last_activity_date = SetMax(active)

\* C6 witness: a leave streak, then the most recent active date, with an older
\* active date behind it
C6_Witness ==
    /\ Analyzed
    /\ analysis.result.consecutive_leave_days >= 1
    /\ analysis.result.last_activity_date # NullDate
    /\ \E d \in WindowDates : d < analysis.result.last_activity_date /\ ~LeaveDate(d)

(***************************************************************************)
(* Claims about the report aggregator.                                     *)
(***************************************************************************)
PassDone == \E i \in 1..Len(passes) : passes[i].status = "done"
DisplayedIds == { agentPerformance[k].agent_id : k \in 1..Len(agentPerformance) }
DisplayedInactive == { k \in 1..Len(agentPerformance) : agentPerformance[k].is_inactive }
\* the agents of a panchayath over the four role tables
AgentsOf(p) == UNION { FetchAgents(agents, Tables[k], p) : k \in 1..Len(Tables) }

RejectedBeforeAnyCall ==
    /\ netlog' = <<>>
    /\ form'.loading = FALSE
    /\ req'.phase = "idle"
    /\ agents' = agents
FormTables == {"coordinators", "pros"}
WardOutOfRange(f) ==
    \/ f.ward.kind # "int"
    \/ f.ward.val < 1
    \/ f.ward.val > NumberOfWards(f.selectedPanchayath)
WrittenCalls == { k \in 1..Len(netlog) : netlog[k].call \in {"insert", "update"} }

\* C8: in both forms a submit whose mobile value is not exactly 10 digits is
\* rejected (as a missing field when empty, as a malformed mobile otherwise);
\* no duplicate check, insert or update is issued for that event and loading
\* is not set to true.
C8_MalformedMobileRejected ==
    [][(Submit /\ form.mobile.len # MOBILE_LEN)
         => /\ RejectedBeforeAnyCall
            /\ req'.outcome = IF form.mobile.len = 0 \/ FieldMissing(form)
                              THEN "missing" ELSE "bad_mobile"]_vars

\* a ProForm submit with a 9-digit mobile has just been rejected
C8_Witness ==
    /\ form.kind = "pro"
    /\ form.mobile.len = MOBILE_LEN - 1
    /\ req.outcome = "bad_mobile"
    /\ netlog = <<>>
    /\ ~form.loading

\* C9: in both forms a submit whose ward is below 1, above the selected
\* panchayath's number_of_wards or not a number is rejected with no duplicate
\* check, insert or update issued; and every row a form writes has
\* 1 <= ward <= number_of_wards of the panchayath selected at submit time,
\* which is the row's panchayath.
C9_WardOutOfRangeRejected ==
    [][/\ (Submit /\ WardOutOfRange(form)) => RejectedBeforeAnyCall
       /\ WriteAnswers =>
            \A t \in FormTables : \A r \in agents'[t] \ agents[t] :
                /\ r.ward >= 1
                /\ r.ward <= NumberOfWards(req.closure.selectedPanchayath)
                /\ r.panchayath_id = req.closure.selectedPanchayath]_vars

\* a CoordinatorForm submit with a ward above the panchayath's count has just
\* been rejected
C9_Witness ==
    /\ form.kind = "coordinator"
    /\ form.selectedPanchayath # NoPanchayath
    /\ form.ward.kind = "int"
    /\ form.ward.val > NumberOfWards(form.selectedPanchayath)
    /\ req.outcome = "bad_ward"
    /\ netlog = <<>>

\* the tables other than the form's own that hold the number the running
\* handler submitted
OtherTablesHolding ==
    { t \in {Tables[k] : k \in 1..Len(Tables)} :
        /\ t # OwnTable(req.closure.kind)
        /\ \E r \in agents[t] : r.mobile_number = req.closure.mobile }

\* C10: when the submitted mobile number (add or edit) is present in an agent
\* table other than the form's own, the duplicate check's answer is
\* isDuplicate = true with that table's name and the submission is aborted:
\* no insert or update is issued, loading is cleared and the agent tables are
\* unchanged.
C10_DuplicateInOtherTableAborts ==
    [][(DuplicateCheckAnswers /\ OtherTablesHolding # {})
         => /\ req'.phase = "idle"
            /\ req'.outcome = "duplicate"
            /\ req'.table \in OtherTablesHolding
            /\ netlog' = netlog
            /\ WrittenCalls = {}
            /\ form'.loading = FALSE
            /\ agents' = agents]_vars

\* an edit whose number belongs to a group leader has just been aborted
C10_Witness ==
    /\ form.editing # NoRow
    /\ form.mobile = GroupLeaderRow.mobile_number
    /\ req.outcome = "duplicate"
    /\ req.table = "group_leaders"
    /\ Len(netlog) = 1
    /\ agents[OwnTable(form.kind)] = {OwnRow(form.kind)}

\* the form's own table, and the rows other than the edited one that hold the
\* number the running handler submitted
FormTable(kind) == IF kind = "coordinator" THEN "coordinators" ELSE "pros"
OtherRowsHolding ==
    { r \in AllRows(agents) :
        /\ r.mobile_number = req.closure.mobile
        /\ ~(r.id = req.closure.editing.id /\ r \in agents[FormTable(req.closure.kind)]) }

\* C11: when record X of the form's own table is edited with X's mobile number
\* unchanged, the duplicate check (excludeId = X.id, targetTable = the form's
\* table) answers isDuplicate = false and the update is issued if no other row
\* of any agent table holds the number; a row other than X that holds it, in the
\* same table too, still conflicts and no update is issued.
C11_EditDoesNotConflictWithItself ==
    [][(/\ DuplicateCheckAnswers
        /\ req.closure.editing # NoRow
        /\ req.closure.mobile = req.closure.editing.mobile_number)
         => IF OtherRowsHolding = {}
            THEN /\ req'.phase = "writing"
                 /\ netlog' = Append(netlog, [call |-> "update",
                                              table |-> FormTable(req.closure.kind)])
                 /\ agents' = agents
            ELSE /\ req'.phase = "idle"
                 /\ req'.outcome = "duplicate"
                 /\ netlog' = netlog
                 /\ agents' = agents]_vars

\* the update of an edit with the record's own number has been issued
C11_Witness ==
    /\ req.phase = "writing"
    /\ req.closure.editing # NoRow
    /\ req.closure.mobile = req.closure.editing.mobile_number
    /\ req.closure.editing \in agents[FormTable(req.closure.kind)]
    /\ netlog[Len(netlog)].call = "update"

(***************************************************************************)
(* Claims about concurrent submissions (SpecRace)                          *)
(***************************************************************************)
\* both sessions are between their submit and the end of their handler
Overlap == req.phase # "idle" /\ other.phase \in {"checking", "writing"}
UniqueMobiles ==
    \A r1, r2 \in AllRows(agents) : r1.mobile_number = r2.mobile_number => r1 = r2

\* C12: submissions that run one after the other (the check and the write of
\* one are over before the other's check starts) keep the mobile numbers
\* unique across the agent tables; the pre-check gives nothing more: the state
\* of C12_Witness, two rows with one number, is reached when both checks are
\* answered before either insert.
C12_SequentialSubmissionsKeepUnique == [](~Overlap) => []UniqueMobiles

\* both sessions have inserted the same number, into different tables
C12_Witness ==
    /\ other.phase = "done"
    /\ \E r1 \in Inserted(agents) \cap agents[FormTable(form.kind)] :
       \E r2 \in Inserted(agents) \ agents[FormTable(form.kind)] :
           r1.mobile_number = r2.mobile_number

(***************************************************************************)
(* Further claims about the forms (SpecForms)                              *)
(***************************************************************************)
\* C13: in every agent form, when the backend rejects a write with a unique
\* violation on (panchayath_id, ward), the error toast shows the specific
\* "already assigned to this ward" message, not a generic failure and not the
\* backend's raw message.
C13_WardAssignedMessage ==
    (req.phase = "idle" /\ req.outcome = "error" /\ req.table = "panchayath_id, ward")
        => /\ req.message.raw = ""
           /\ req.message.text \in {"A coordinator is already assigned to this ward",
                                    "A PRO is already assigned to this ward"}

FailedOutcomes ==
    {"missing", "bad_mobile", "threw", "bad_ward", "bad_rating", "duplicate", "error"}
Fields(f) == <<f.name, f.mobile, f.ward, f.rating, f.groupLeaderId, f.panchayathId>>
\* a step of handleSubmit: the submit event or one of its awaits answering
HandlerStep == req' # req /\ ~(req'.phase = "idle" /\ req'.outcome = "none")
FailingStep == HandlerStep /\ req'.phase = "idle" /\ req'.outcome \in FailedOutcomes

\* C15: a step of handleSubmit that ends the submission in a failure (a
\* validation failure, a duplicate, a failed check or a rejected write) leaves
\* name, mobile, ward, rating, groupLeaderId and panchayathId as they were and
\* issues no network call; once the handler has returned no call is issued
\* until the next submit event; and the only step of the handler that changes
\* the fields is the successful add, which clears them.
C15_FailedSubmissionKeepsFields ==
    [][/\ FailingStep =>
            /\ Fields(form') = Fields(form)
            /\ netlog' = IF req.phase = "idle" THEN <<>> ELSE netlog
       /\ (req.phase = "idle" /\ netlog' # <<>> /\ netlog' # netlog) =>
            /\ req'.phase = "checking"
            /\ netlog' = <<Call("duplicate_check", FormTable(form.kind))>>
       /\ (HandlerStep /\ Fields(form') # Fields(form)) =>
            /\ req.phase = "writing" /\ req'.outcome = "added"
            /\ form'.name = <<>> /\ form'.mobile = EmptyMobile /\ form'.ward = EmptyStr
            /\ IF form.kind = "coordinator" THEN form'.rating = EmptyStr
               ELSE form'.groupLeaderId = 0]_vars
\* a write was rejected and the form still holds what was submitted
C15_Witness ==
    /\ req.phase = "idle" /\ req.outcome = "error" /\ Len(netlog) = 2
    /\ Validate([form EXCEPT !.loading = FALSE]) = "ok"
    /\ ~form.loading

\* the step in which an insert is accepted
SuccessfulAdd == req.phase = "writing" /\ req'.phase = "idle" /\ req'.outcome = "added"

\* C20: in a CoordinatorForm with a pre-selected panchayath, a successful add
\* leaves panchayathId at the pre-selected panchayath's id, so the next
\* submission is not stopped by the required-field check.
C20_PreSelectedPanchayathKept ==
    [][(SuccessfulAdd /\ form.kind = "coordinator" /\ form.pre # NoPanchayath)
          => /\ form'.panchayathId = form.pre
             /\ ~FieldMissing([form' EXCEPT !.name = req.closure.name,
                                            !.mobile = req.closure.mobile,
                                            !.ward = req.closure.ward,
                                            !.rating = req.closure.rating])]_vars

\* the group leaders of a ward of a panchayath
LeadersOfWard(panchayath, ward) ==
    { g.id : g \in { x \in agents["group_leaders"] :
                        x.panchayath_id = panchayath /\ x.ward = ward } }
\* the step in which ProForm's insert or update is accepted
ProWritten ==
    /\ req.phase = "writing" /\ req'.phase = "idle"
    /\ req'.outcome \in {"added", "updated"}
    /\ form.kind = "pro"
\* the step in which ProForm's submit event passes the checks
ProSubmitted == req.phase = "idle" /\ req'.phase = "checking" /\ form.kind = "pro"

\* C21: the groupLeaderId ProForm submits is a group leader of the submitted
\* ward of the panchayath, and every PRO row the form writes (insert or update)
\* has a group_leader_id that is a group leader of the row's ward and panchayath.
C21_GroupLeaderOfSubmittedWard ==
    [][/\ ProSubmitted =>
            form.groupLeaderId \in
                LeadersOfWard(IF form.editing # NoRow THEN form.editing.panchayath_id
                              ELSE form.panchayathId,
                              ParseNumber(form.ward).val)
       /\ ProWritten =>
            \A r \in agents'["pros"] \ agents["pros"] :
                r.group_leader_id \in LeadersOfWard(r.panchayath_id, r.ward)]_vars

\* the form was opened for editing and nothing has been typed or chosen since
OpenedForEditing ==
    form.editing # NoRow /\ form = MountForm(form.kind, form.pre, form.editing)
\* the step in which fetchPanchayaths answers with the list
PanchayathListArrives ==
    /\ form.panchayathsPending /\ ~form'.panchayathsPending
    /\ form'.panchayaths = Panchayaths

\* C22: in a form opened for editing, once the effects have run and the
\* panchayath list has arrived, ward holds the edited record's ward (and in
\* ProForm groupLeaderId holds its group_leader_id), so that submitting without
\* a change passes the required-field check.
C22_EditPrefillKeepsWard ==
    [][(OpenedForEditing /\ PanchayathListArrives)
          => /\ form'.ward = Str(form.editing.ward)
             /\ form.kind = "pro" => form'.groupLeaderId = form.editing.group_leader_id
             /\ ~FieldMissing(form')]_vars

(***************************************************************************)
(* Further claims about the report (SpecReport)                            *)
(***************************************************************************)
Running(i) == passes[i].status = "running"
PassStep(i) == PassTable(i) \/ PassTableError(i)

\* C14: report passes share no mutable state: a step of a pass taken while
\* another pass is in flight reads and writes only that pass's own variables, so
\* it changes nothing the other pass wrote or will read (the loading flag, the
\* displayed list, the statistics).
C14_PassesShareNoState ==
    [][\A i \in 1..Len(passes) :
          (PassStep(i) /\ \E j \in 1..Len(passes) : j # i /\ Running(j))
              => UNCHANGED <<agentPerformance, performanceStats, reportLoading>>]_vars

\* the performance part of a displayed entry
PerformanceOf(e) ==
    [consecutive_leave_days |-> e.consecutive_leave_days, is_inactive |-> e.is_inactive,
     last_activity_date |-> e.last_activity_date, total_notes |-> e.total_notes]
\* what the catch block of analyzeAgentPerformance returns.  In SpecReport no
\* agent's analysis yields this record: the odd agents have a whole window of
\* leave days, the even ones have notes
FetchFailedResult ==
    [consecutive_leave_days |-> 0, is_inactive |-> FALSE,
     last_activity_date |-> NullDate, total_notes |-> 0]
FetchFailed == { k \in 1..Len(agentPerformance) :
                    PerformanceOf(agentPerformance[k]) = FetchFailedResult }
Analysed(k) ==
    \E m \in ReportMonths :
        PerformanceOf(agentPerformance[k]) =
            AnalyzeAgentPerformance(daily_notes, agentPerformance[k].mobile_number, m,
                                    tzOffset, now, FALSE)

\* C16: an agent whose daily_notes fetch failed appears in the list with
\* consecutive_leave_days = 0, is_inactive = false, last_activity_date = null and
\* total_notes = 0; the pass goes on with the remaining agents (every agent of
\* the panchayath is listed once, each with the failure record or its analysis);
\* the failed agents are counted in total_agents and not in inactive_agents.
C16_FetchFailureCountsAsActive ==
    PassDone =>
        /\ \E p \in Panchayaths :
              /\ DisplayedIds = { r.id : r \in AgentsOf(p) }
              /\ Len(agentPerformance) = Cardinality(AgentsOf(p))
        /\ \A k \in 1..Len(agentPerformance) : k \in FetchFailed \/ Analysed(k)
        /\ \A k \in FetchFailed : ~Analysed(k)
        /\ performanceStats.total_agents = Len(agentPerformance)
        /\ performanceStats.inactive_agents =
              Cardinality({ k \in 1..Len(agentPerformance) \ FetchFailed :
                              agentPerformance[k].is_inactive })
\* a failed agent is listed, followed by an analysed one
C16_Witness ==
    /\ PassDone
    /\ \E k \in FetchFailed : \E k2 \in 1..Len(agentPerformance) \ FetchFailed : k < k2
    /\ performanceStats.total_agents > performanceStats.inactive_agents
    /\ performanceStats.inactive_agents > 0

NoPassRunning == \A i \in 1..Len(passes) : ~Running(i)
LastPassSucceeded == passes # <<>> /\ passes[Len(passes)].status = "done"
\* entry k is what a pass for month m lists for its agent
ComputedFor(k, m) ==
    \/ k \in FetchFailed
    \/ PerformanceOf(agentPerformance[k]) =
          AnalyzeAgentPerformance(daily_notes, agentPerformance[k].mobile_number, m,
                                  tzOffset, now, FALSE)

\* C18: whenever no pass is in flight and the most recently started pass
\* succeeded, the displayed list and statistics are those of the selected
\* panchayath and month: the list holds that panchayath's agents, analysed for
\* that month, and the statistics count that list.
C18_DisplayedIsLatestSelection ==
    (NoPassRunning /\ LastPassSucceeded) =>
        /\ DisplayedIds = { r.id : r \in AgentsOf(selectedPanchayath) }
        /\ Len(agentPerformance) = Cardinality(AgentsOf(selectedPanchayath))
        /\ \A k \in 1..Len(agentPerformance) : ComputedFor(k, selectedMonth)
        /\ performanceStats = PerformanceStatsOf(agentPerformance)

\* C19: loading is true exactly while at least one pass is in flight: the end
\* of one pass does not clear it while another pass is running, and it is
\* false once all passes have finished.
C19_LoadingWhilePassInFlight ==
    reportLoading <=> \E i \in 1..Len(passes) : Running(i)

(***************************************************************************)
(* Further claims about the analyzer (SpecAnalyzer)                        *)
(***************************************************************************)
\* one pass over the dates, most recent first, that keeps the first date that
\* is not a leave day
RECURSIVE MostRecentNonLeave(_, _)
MostRecentNonLeave(allDates, notes) ==
    IF allDates = <<>> THEN NullDate
    ELSE IF ~IsLeaveDay(NotesMapGet(notes, Head(allDates))) THEN Head(allDates)
         ELSE MostRecentNonLeave(Tail(allDates), notes)
\* what the descending walk of lines 231-252 leaves in lastActivityDate
WalkLast ==
    ConsecutiveWalk(analysis.allDates, analysis.fetched,
                    [count |-> 0, last |-> NullDate]).last

\* C17: last_activity_date, computed by the descending walk and then the
\* fallback scan, is what a single pass tracking the most recent non-leave date
\* yields; when the walk found no date (the fallback runs) every date of the
\* window is a leave day and the fallback scan assigns nothing.
C17_FallbackScanIsRedundant ==
    Analyzed =>
        /\ analysis.result.last_activity_date =
              MostRecentNonLeave(analysis.allDates, analysis.fetched)
        /\ WalkLast = NullDate =>
              /\ \A i \in 1..Len(analysis.allDates) :
                    IsLeaveDay(NotesMapGet(analysis.fetched, analysis.allDates[i]))
              /\ FallbackScan(analysis.allDates, analysis.fetched) = NullDate
\* the fallback ran over a window that holds a note that is not marked as
\* leave and has a white-space activity
C17_Witness ==
    /\ Analyzed
    /\ WalkLast = NullDate
    /\ analysis.result.last_activity_date = NullDate
    /\ \E i \in 1..Len(analysis.allDates) :
          \E n \in NotesMapGet(analysis.fetched, analysis.allDates[i]) :
              ~n.is_leave /\ n.activity # <<>>

====
